---- MODULE Spec2Model ----
(***************************************************************************)
(* Model of src/main.py: the POST /chat handler handle_chat, which reads   *)
(* memories from the memory service (requests.get), calls the inference    *)
(* service (groq_client.chat.completions.create), saves the interaction    *)
(* (requests.post) and returns the reply.                                  *)
(*                                                                         *)
(* A Python string is modelled as a sequence of fragments: a fragment is   *)
(* one character of Chars or one literal of the source.  Concatenation is  *)
(* \o, so formatting (join, f-strings) is modelled by what it builds.      *)
(*                                                                         *)
(* Each request runs handle_chat with its own locals; the handler blocks   *)
(* in three outbound calls, so it is cut into the steps between them.      *)
(***************************************************************************)
EXTENDS Integers, Sequences, FiniteSets, TLC

\* ---------------------------------------------------------------- bounds
MaxStrLen == 1
MaxRecords == 2

Requests == {1, 2}
Chars == {"a", "b"}
UserIds == {"u1", "u2"}
StatusCodes == {200, 304, 404, 503}

RECURSIVE StringsUpTo(_)
StringsUpTo(n) ==
    IF n = 0 THEN {<<>>}
    ELSE LET S == StringsUpTo(n - 1)
         IN  S \cup {Append(s, c) : s \in S, c \in Chars}

Strings == StringsUpTo(MaxStrLen)

\* ------------------------------------------------------- values (Python)
\* An Optional[str]: None, or a string.
None == [none |-> TRUE, str |-> <<>>]
Some(s) == [none |-> FALSE, str |-> s]

\* str(x) as an f-string placeholder renders it.
Str(x) == IF x.none THEN <<"N", "o", "n", "e">> ELSE x.str

\* One element of the "memories" list of the memory service's body:
\*   text      an object with a string under 'text'
\*   notext    an object without the key 'text'
\*   nonstr    an object whose 'text' is not a string
\*   nonobject not an object (a string, a number, null, a list)
MemoryRecords ==
    {[kind |-> "text", text |-> s] : s \in Strings}
    \cup {[kind |-> k, text |-> <<>>] : k \in {"notext", "nonstr", "nonobject"}}

RECURSIVE ListsUpTo(_, _)
ListsUpTo(S, n) ==
    IF n = 0 THEN {<<>>}
    ELSE LET L == ListsUpTo(S, n - 1)
         IN  L \cup {Append(l, x) : l \in L, x \in S}

\* The value under "memories": a list of records, null, or another JSON
\* value that Python finds falsy (0, "", {}, false) or truthy.
EmptyList == [kind |-> "list", items |-> <<>>]
MemoriesValues(recs) ==
    {[kind |-> "list", items |-> l] : l \in recs}
    \cup {[kind |-> k, items |-> <<>>] : k \in {"null", "falsy", "truthy"}}

\* The body of the memory service's answer: "undecodable" is not JSON,
\* "other" is JSON that is not an object, "object" is an object, with or
\* without the key "memories".
NoBody == [kind |-> "undecodable", has_memories |-> FALSE, memories |-> EmptyList]
Bodies(recs) ==
    {NoBody,
     [kind |-> "other", has_memories |-> FALSE, memories |-> EmptyList],
     [kind |-> "object", has_memories |-> FALSE, memories |-> EmptyList]}
    \cup {[kind |-> "object", has_memories |-> TRUE, memories |-> m] :
             m \in MemoriesValues(recs)}

\* What requests.get / requests.post comes back with: a raised
\* RequestException (no connection, timeout, ...), or a Response.
NetworkError == [raises |-> TRUE, status_code |-> 0, body |-> NoBody]
Responses(recs) ==
    {NetworkError}
    \cup {[raises |-> FALSE, status_code |-> s, body |-> b] :
             s \in StatusCodes, b \in Bodies(recs)}

\* What chat.completions.create comes back with: a raised exception, a
\* completion with no choices, or a completion whose first choice carries
\* the content (a string, or None).
CreateRaised == [kind |-> "raise", content |-> None]
Completions(strs) ==
    {CreateRaised, [kind |-> "nochoices", content |-> None],
     [kind |-> "content", content |-> None]}
    \cup {[kind |-> "content", content |-> Some(s)] : s \in strs}

\* What the client of POST /chat receives.
NoResult == [status_code |-> 0, kind |-> "none", detail |-> "", reply |-> None]
HTTPException(detail) ==
    [status_code |-> 500, kind |-> "detail", detail |-> detail, reply |-> None]
\* An exception that no except clause of the handler catches leaves the
\* handler; the framework answers with its own 500.
InternalServerError ==
    [status_code |-> 500, kind |-> "internal",
     detail |-> "Internal Server Error", reply |-> None]

\* ------------------------------------------- the handler's pure pieces
\* Variant of RaiseForStatus that lets the 4xx statuses through.
RaiseForStatus5xx(status_code) == status_code >= 500 /\ status_code < 600

\* response.raise_for_status(): "Raises an exception for bad status codes
\* (4xx or 5xx)".
RaiseForStatus(status_code) == status_code >= 400 /\ status_code < 600

\* response.json().get("memories", [])
JsonGetMemories(body) ==
    IF body.has_memories THEN body.memories ELSE EmptyList

\* `if memories_data:`
Truthy(m) ==
    CASE m.kind = "list" -> Len(m.items) > 0
      [] m.kind = "truthy" -> TRUE
      [] OTHER -> FALSE

\* Variant of Texts that walks the records backwards.
TextsReversed(items) ==
    [i \in 1..Len(items) |-> items[Len(items) + 1 - i].text]

\* [mem['text'] for mem in memories_data]
Texts(items) == [i \in 1..Len(items) |-> items[i].text]

\* sep.join(strs)
RECURSIVE Join(_, _)
Join(sep, strs) ==
    IF Len(strs) = 0 THEN <<>>
    ELSE IF Len(strs) = 1 THEN strs[1]
    ELSE strs[1] \o sep \o Join(sep, Tail(strs))

StartOfMemories == <<"--- Start of Memories ---">>
EndOfMemories == <<"--- End of Memories ---">>
Bootstrap ==
    <<"This is the first time we are talking. Let's get to know each other.">>

FormattedMemories(memories_data) == Join(<<"\n">>, Texts(memories_data.items))

\* Variant of MemoryContext without the else branch of line 43.
MemoryContextAlwaysFormatted(memories_data) ==
    StartOfMemories \o <<"\n">> \o FormattedMemories(memories_data)
        \o <<"\n">> \o EndOfMemories

\* Lines 39-44: the value of memory_context.
MemoryContext(memories_data) ==
    IF Truthy(memories_data)
    THEN StartOfMemories \o <<"\n">> \o FormattedMemories(memories_data)
            \o <<"\n">> \o EndOfMemories
    ELSE Bootstrap

\* The exception lines 34-44 raise on this answer of requests.get, as the
\* except clause of line 46 sees it: "RequestException" is caught there,
\* "Exception" is any other exception and is not.  json_error is what a
\* body that is not JSON raises in the installed requests library: a
\* subclass of RequestException, or a plain ValueError.
ReadException(resp, json_error) ==
    IF resp.raises THEN "RequestException"
    ELSE IF RaiseForStatus(resp.status_code) THEN "RequestException"
    ELSE IF resp.body.kind = "undecodable" THEN json_error
    ELSE IF resp.body.kind = "other" THEN "Exception"
    ELSE LET m == JsonGetMemories(resp.body)
         IN  IF ~Truthy(m) THEN "none"
             ELSE IF m.kind # "list" THEN "Exception"
             ELSE IF \E i \in 1..Len(m.items) : m.items[i].kind # "text"
                  THEN "Exception"
             ELSE "none"

SystemPrompt ==
    <<"You are a helpful and friendly personal assistant. ",
      "You have a perfect memory. Use the provided memories to personalize the conversation. ",
      "Be conversational and refer to past details naturally.">>

\* The messages argument of chat.completions.create.
Messages(context, message) ==
    <<[role |-> "system", content |-> SystemPrompt],
      [role |-> "system", content |-> context],
      [role |-> "user", content |-> message]>>

NoMessages == <<>>

\* Variant of CreateRaises in which a completion without choices yields a
\* default content instead of an IndexError.
CreateRaisesOnly(completion) == completion.kind = "raise"

\* Lines 58-69: create raised, or choices[0] raised IndexError; both are
\* caught by `except Exception`.
CreateRaises(completion) == completion.kind \in {"raise", "nochoices"}

\* f"User said: '{request.message}'. You replied: '{ai_response}'"
InteractionToSave(message, ai) ==
    <<"User said: '">> \o message \o <<"'. You replied: '">> \o Str(ai) \o <<"'">>

\* Variant of Reply that returns `ai_response or ""`.
ReplyOrEmpty(ai) ==
    [status_code |-> 200, kind |-> "reply", detail |-> "",
     reply |-> IF ai.none THEN Some(<<>>) ELSE ai]

\* The `return {"reply": ai_response}` of line 88.
Reply(ai) ==
    [status_code |-> 200, kind |-> "reply", detail |-> "", reply |-> ai]

\* Lines 80-85: what is printed once requests.post is back.  The status of
\* the answer is not looked at.
PrintAfterPost(post) ==
    IF post.raises THEN "Warning: Could not save memory"
    ELSE "Successfully saved interaction to Mem0."

\* Variant of ResultAfterPost whose except clause does not catch what
\* requests.post raises.
ResultAfterPostUncaught(post, ai) ==
    IF post.raises THEN InternalServerError ELSE Reply(ai)

\* Lines 83-88: a RequestException of requests.post is swallowed by the
\* except clause, and the handler returns the reply either way.
ResultAfterPost(post, ai) == Reply(ai)

\* Outbound calls, as the services see them.
Call(op) == [op |-> op, ph |-> "call"]
Return(op) == [op |-> op, ph |-> "return"]

\* ----------------------------------------------------------------- state
VARIABLES
    pc,               \* where each request's handler stands
    request,          \* the ChatRequest of handle_chat
    response,         \* what requests.get came back with
    memories_data,
    memory_context,
    chat_completion,  \* what chat.completions.create came back with
    ai_response,
    post_response,    \* what requests.post came back with (the code drops it)
    params,           \* argument of requests.get
    messages,         \* argument of chat.completions.create
    payload,          \* argument of requests.post
    calls,            \* the outbound calls of the request, in order
    printed,          \* what the handler printed
    result,           \* what the client receives
    json_error        \* the installed requests: what a non-JSON body raises

vars ==
    <<pc, request, response, memories_data, memory_context, chat_completion,
      ai_response, post_response, params, messages, payload, calls, printed,
      result, json_error>>

NoRequest == [user_id |-> "", message |-> <<>>]
NoParams == [user_id |-> ""]
NoPayload == [user_id |-> "", data |-> <<>>]
NoResponse == [raises |-> FALSE, status_code |-> 0, body |-> NoBody]
NoCompletion == [kind |-> "none", content |-> None]

Init ==
    /\ pc = [r \in Requests |-> "idle"]
    /\ request = [r \in Requests |-> NoRequest]
    /\ response = [r \in Requests |-> NoResponse]
    /\ memories_data = [r \in Requests |-> EmptyList]
    /\ memory_context = [r \in Requests |-> <<>>]
    /\ chat_completion = [r \in Requests |-> NoCompletion]
    /\ ai_response = [r \in Requests |-> None]
    /\ post_response = [r \in Requests |-> NoResponse]
    /\ params = [r \in Requests |-> NoParams]
    /\ messages = [r \in Requests |-> NoMessages]
    /\ payload = [r \in Requests |-> NoPayload]
    /\ calls = [r \in Requests |-> <<>>]
    /\ printed = [r \in Requests |-> <<>>]
    /\ result = [r \in Requests |-> NoResult]
    /\ json_error \in {"RequestException", "Exception"}

\* {"user_id": request.user_id}
Params(req) == [user_id |-> req.user_id]

\* Variant of Payload that reads the request from a module-level variable,
\* which holds the request of the handler that started last.
PayloadShared(r, ai) ==
    LET last == CHOOSE q \in Requests :
                    /\ pc[q] # "idle"
                    /\ \A p \in Requests : pc[p] # "idle" => p <= q
    IN  [user_id |-> request[last].user_id,
         data |-> InteractionToSave(request[last].message, ai)]

\* {"user_id": request.user_id, "data": interaction_to_save}
Payload(r, ai) ==
    [user_id |-> request[r].user_id,
     data |-> InteractionToSave(request[r].message, ai)]

\* The outbound calls a step adds to the request's calls.
CallsAfterGet(ex) ==
    IF ex = "none" THEN <<Return("get"), Call("create")>> ELSE <<Return("get")>>

CallsAfterCreate(completion) ==
    IF CreateRaises(completion) THEN <<Return("create")>>
    ELSE <<Return("create"), Call("post")>>

\* Variant of CallsAfterPost that tries the write a second time.
CallsAfterPostRetry(post) ==
    IF post.raises THEN <<Return("post"), Call("post"), Return("post")>>
    ELSE <<Return("post")>>

CallsAfterPost(post) == <<Return("post")>>

\* What the client receives when lines 34-48 raise ex.
ReadFailure(ex) ==
    IF ex = "RequestException" THEN HTTPException("Failed to retrieve memories.")
    ELSE InternalServerError

\* Lines 27-34: the request arrives; the handler calls requests.get.
HandleChat(r, user_id, message) ==
    /\ pc[r] = "idle"
    /\ LET req == [user_id |-> user_id, message |-> message]
       IN  /\ request' = [request EXCEPT ![r] = req]
           /\ params' = [params EXCEPT ![r] = Params(req)]
    /\ printed' = [printed EXCEPT ![r] = Append(@, "Received message from user")]
    /\ calls' = [calls EXCEPT ![r] = Append(@, Call("get"))]
    /\ pc' = [pc EXCEPT ![r] = "get"]
    /\ UNCHANGED <<response, memories_data, memory_context, chat_completion,
                   ai_response, post_response, messages, payload, result,
                   json_error>>

\* Lines 34-66: requests.get is back; the handler builds memory_context and
\* calls the inference service, or raises.
GetReturns(r, resp) ==
    /\ pc[r] = "get"
    /\ response' = [response EXCEPT ![r] = resp]
    /\ LET ex == ReadException(resp, json_error)
       IN  /\ calls' = [calls EXCEPT ![r] = @ \o CallsAfterGet(ex)]
           /\ IF ex = "none"
              THEN LET data == JsonGetMemories(resp.body)
                       context == MemoryContext(data)
                   IN  /\ memories_data' = [memories_data EXCEPT ![r] = data]
                       /\ memory_context' = [memory_context EXCEPT ![r] = context]
                       /\ messages' = [messages EXCEPT ![r] =
                                          Messages(context, request[r].message)]
                       /\ pc' = [pc EXCEPT ![r] = "create"]
                       /\ UNCHANGED <<printed, result>>
              ELSE /\ printed' = [printed EXCEPT ![r] =
                                     IF ex = "RequestException"
                                     THEN Append(@, "Error retrieving memories")
                                     ELSE @]
                   /\ result' = [result EXCEPT ![r] = ReadFailure(ex)]
                   /\ pc' = [pc EXCEPT ![r] = "done"]
                   /\ UNCHANGED <<memories_data, memory_context, messages>>
    /\ UNCHANGED <<request, chat_completion, ai_response, post_response, params,
                   payload, json_error>>

\* Lines 58-80: create is back; the handler takes the content and calls
\* requests.post, or raises.
CreateReturns(r, completion) ==
    /\ pc[r] = "create"
    /\ chat_completion' = [chat_completion EXCEPT ![r] = completion]
    /\ calls' = [calls EXCEPT ![r] = @ \o CallsAfterCreate(completion)]
    /\ IF CreateRaises(completion)
       THEN /\ printed' = [printed EXCEPT ![r] = Append(@, "Error calling Groq")]
            /\ result' = [result EXCEPT ![r] =
                             HTTPException("Failed to get response from LLM.")]
            /\ pc' = [pc EXCEPT ![r] = "done"]
            /\ UNCHANGED <<ai_response, payload>>
       ELSE /\ ai_response' = [ai_response EXCEPT ![r] = completion.content]
            /\ payload' = [payload EXCEPT ![r] = Payload(r, completion.content)]
            /\ pc' = [pc EXCEPT ![r] = "post"]
            /\ UNCHANGED <<printed, result>>
    /\ UNCHANGED <<request, response, memories_data, memory_context,
                   post_response, params, messages, json_error>>

\* Lines 80-88: requests.post is back (or raised); the handler prints and
\* returns the reply.
PostReturns(r, post) ==
    /\ pc[r] = "post"
    /\ post_response' = [post_response EXCEPT ![r] = post]
    /\ calls' = [calls EXCEPT ![r] = @ \o CallsAfterPost(post)]
    /\ printed' = [printed EXCEPT ![r] = Append(@, PrintAfterPost(post))]
    /\ result' = [result EXCEPT ![r] = ResultAfterPost(post, ai_response[r])]
    /\ pc' = [pc EXCEPT ![r] = "done"]
    /\ UNCHANGED <<request, response, memories_data, memory_context,
                   chat_completion, ai_response, params, messages, payload,
                   json_error>>

\* The response is sent; the handler's locals are gone.
ResponseSent(r) ==
    /\ pc[r] = "done"
    /\ pc' = [pc EXCEPT ![r] = "idle"]
    /\ request' = [request EXCEPT ![r] = NoRequest]
    /\ response' = [response EXCEPT ![r] = NoResponse]
    /\ memories_data' = [memories_data EXCEPT ![r] = EmptyList]
    /\ memory_context' = [memory_context EXCEPT ![r] = <<>>]
    /\ chat_completion' = [chat_completion EXCEPT ![r] = NoCompletion]
    /\ ai_response' = [ai_response EXCEPT ![r] = None]
    /\ post_response' = [post_response EXCEPT ![r] = NoResponse]
    /\ params' = [params EXCEPT ![r] = NoParams]
    /\ messages' = [messages EXCEPT ![r] = NoMessages]
    /\ payload' = [payload EXCEPT ![r] = NoPayload]
    /\ calls' = [calls EXCEPT ![r] = <<>>]
    /\ printed' = [printed EXCEPT ![r] = <<>>]
    /\ result' = [result EXCEPT ![r] = NoResult]
    /\ UNCHANGED json_error

\* ------------------------------------------------------- specifications
\* One step of the system over given sets of inputs and answers.  With
\* alone, a request arrives only while no other is being handled.
Arrive(users, msgs, alone) ==
    \E r \in Requests, u \in users, m \in msgs :
        /\ alone => \A q \in Requests : pc[q] = "idle"
        /\ HandleChat(r, u, m)
GetDone(resps) == \E r \in Requests, resp \in resps : GetReturns(r, resp)
CreateDone(comps) == \E r \in Requests, c \in comps : CreateReturns(r, c)
PostDone(posts) == \E r \in Requests, p \in posts : PostReturns(r, p)
Sent == \E r \in Requests : ResponseSent(r)

\* What the memory service answers a write with (the body is not read).
PostResponses ==
    {NetworkError}
    \cup {[raises |-> FALSE, status_code |-> s, body |-> NoBody] : s \in StatusCodes}

Contents == {<<>>, <<"a">>, <<"b", "a">>}

\* Spec: one request at a time; every status, every shape of body and
\* every outcome of the three calls.
FlowRecords ==
    {[kind |-> "text", text |-> <<"a">>], [kind |-> "text", text |-> <<"b">>]}
    \cup {[kind |-> k, text |-> <<>>] : k \in {"notext", "nonstr", "nonobject"}}
GetResponses == Responses(ListsUpTo(FlowRecords, MaxRecords))
ChatCompletions == Completions(Contents)

Next ==
    \/ Arrive(UserIds, Strings, TRUE)
    \/ GetDone(GetResponses)
    \/ CreateDone(ChatCompletions)
    \/ PostDone(PostResponses)
    \/ Sent

Spec == Init /\ [][Next]_vars

\* SpecData: one request at a time; every list of records within the
\* bounds, a few outcomes of the other calls.
OkStatus == {200}
DataGetResponses ==
    {[raises |-> FALSE, status_code |-> s, body |-> b] :
        s \in OkStatus, b \in Bodies(ListsUpTo(MemoryRecords, MaxRecords))}
DataCompletions ==
    {CreateRaised} \cup {[kind |-> "content", content |-> Some(s)] : s \in Contents}
DataPostResponses ==
    {NetworkError, [raises |-> FALSE, status_code |-> 200, body |-> NoBody]}

NextData ==
    \/ Arrive(UserIds, Contents, TRUE)
    \/ GetDone(DataGetResponses)
    \/ CreateDone(DataCompletions)
    \/ PostDone(DataPostResponses)
    \/ Sent

SpecData == Init /\ [][NextData]_vars

\* SpecConc: the requests run concurrently, their steps interleaved in
\* every order, over a few answers of each kind.
ConcStrings == {<<"a">>, <<"b">>}
ConcLists ==
    {<<>>,
     <<[kind |-> "text", text |-> <<"a">>]>>,
     <<[kind |-> "text", text |-> <<"b">>], [kind |-> "text", text |-> <<"a">>]>>,
     <<[kind |-> "notext", text |-> <<>>]>>}
ConcGetResponses ==
    {NetworkError}
    \cup {[raises |-> FALSE, status_code |-> s,
           body |-> [kind |-> "object", has_memories |-> TRUE,
                     memories |-> [kind |-> "list", items |-> l]]] :
             s \in OkStatus, l \in ConcLists}
ConcCompletions ==
    {CreateRaised} \cup {[kind |-> "content", content |-> Some(s)] : s \in ConcStrings}

NextConc ==
    \/ Arrive(UserIds, ConcStrings, FALSE)
    \/ GetDone(ConcGetResponses)
    \/ CreateDone(ConcCompletions)
    \/ PostDone(DataPostResponses)
    \/ Sent

SpecConc == Init /\ [][NextConc]_vars

\* --------------------------------------------------------------- claims
Issued(r, op) == \E i \in 1..Len(calls[r]) : calls[r][i] = Call(op)
Returned(r, op) == \E i \in 1..Len(calls[r]) : calls[r][i] = Return(op)

RetrievalFailure == HTTPException("Failed to retrieve memories.")
LLMFailure == HTTPException("Failed to get response from LLM.")

Is2xx(status_code) == status_code >= 200 /\ status_code <= 299

\* The context handed to the inference service: the second message.
ContextPassed(r) == messages[r][2].content

\* C1 as stated, without the wording of the detail: when the memory-read
\* fails by a network error or by any non-2xx status, the handler ends with
\* a 500 and calls neither the inference service nor the write.
C1_AbortOnNon2xx ==
    \A r \in Requests :
        (Returned(r, "get")
         /\ (response[r].raises \/ ~Is2xx(response[r].status_code)))
        => /\ pc[r] = "done"
           /\ result[r].status_code = 500
           /\ ~Issued(r, "create")
           /\ ~Issued(r, "post")

\* C1 amended: when the memory-read fails by a network error or by a 4xx or
\* 5xx status, the handler ends with the 500 "Failed to retrieve memories."
\* and calls neither the inference service nor the write.
C1_AbortOnReadFailure ==
    \A r \in Requests :
        (Returned(r, "get")
         /\ (response[r].raises
             \/ (response[r].status_code >= 400 /\ response[r].status_code <= 599)))
        => /\ pc[r] = "done"
           /\ result[r] = RetrievalFailure
           /\ ~Issued(r, "create")
           /\ ~Issued(r, "post")

C1_Witness ==
    \E r \in Requests :
        /\ pc[r] = "done"
        /\ ~response[r].raises
        /\ response[r].status_code = 404
        /\ response[r].body.kind = "object"
        /\ result[r] = RetrievalFailure

C3_WriteFailureKeepsReply ==
    \A r \in Requests :
        (Returned(r, "post")
         /\ (post_response[r].raises \/ ~Is2xx(post_response[r].status_code)))
        => /\ pc[r] = "done"
           /\ result[r].status_code = 200
           /\ result[r].kind = "reply"
           /\ result[r].reply = chat_completion[r].content

C3_Witness ==
    \E r \in Requests :
        /\ pc[r] = "done"
        /\ post_response[r].raises
        /\ result[r].kind = "reply"
        /\ result[r].reply = Some(<<"b", "a">>)

\* C4: when the memory-read succeeded and the inference call fails (create
\* raises, or the completion has no first choice), the response is the 500
\* "Failed to get response from LLM.", it carries no reply, and no write is
\* called.
C4_AbortOnInferenceFailure ==
    \A r \in Requests :
        (Returned(r, "create") /\ chat_completion[r].kind \in {"raise", "nochoices"})
        => /\ pc[r] = "done"
           /\ result[r] = LLMFailure
           /\ result[r].kind # "reply"
           /\ ~Issued(r, "post")

C4_Witness ==
    \E r \in Requests :
        /\ pc[r] = "done"
        /\ Returned(r, "create")
        /\ chat_completion[r].kind = "nochoices"
        /\ result[r] = LLMFailure

\* C5 as stated: every response is a 200 carrying reply, or a 500 whose
\* detail is one of the two fixed strings, whatever the services answer.
C5_OnlyFixedResponses ==
    \A r \in Requests :
        pc[r] = "done"
        => \/ result[r].status_code = 200 /\ result[r].kind = "reply"
           \/ result[r] = RetrievalFailure
           \/ result[r] = LLMFailure

\* C6: the outbound calls of a request are get, create, post in this order,
\* each called once at most and only after the one before has returned;
\* the get is called as soon as the request is handled.
CallOrder ==
    <<Call("get"), Return("get"), Call("create"), Return("create"),
      Call("post"), Return("post")>>

C6_SequentialCalls ==
    \A r \in Requests :
        /\ Len(calls[r]) <= Len(CallOrder)
        /\ calls[r] = SubSeq(CallOrder, 1, Len(calls[r]))
        /\ pc[r] # "idle" => Len(calls[r]) >= 1
        /\ pc[r] = "create" => Len(calls[r]) = 3
        /\ pc[r] = "post" => Len(calls[r]) = 5

C6_Witness ==
    \E r \in Requests : pc[r] = "done" /\ post_response[r].raises /\ calls[r] = CallOrder

\* C9 as stated: a write that fails, by a network error or by a non-2xx
\* status, is followed by the warning, and "Successfully saved" is printed
\* only for a write that succeeded.
C9_WriteFailureObserved ==
    \A r \in Requests :
        Returned(r, "post")
        => LET failed == post_response[r].raises
                         \/ ~Is2xx(post_response[r].status_code)
               said(m) == \E i \in 1..Len(printed[r]) : printed[r][i] = m
           IN  /\ failed => said("Warning: Could not save memory")
               /\ said("Successfully saved interaction to Mem0.") => ~failed

\* The records the memory service returned to the request: the list under
\* "memories", or no record when the key is missing or holds no list.
RecordsReturned(r) ==
    LET b == response[r].body
    IN  IF b.kind = "object" /\ b.has_memories /\ b.memories.kind = "list"
        THEN b.memories.items
        ELSE <<>>

\* From position pos on, ctx holds the texts of items one after the other,
\* each followed by one newline, then the closing line and nothing more.
RECURSIVE LaidOut(_, _, _)
LaidOut(ctx, items, pos) ==
    IF Len(items) = 0
    THEN pos = Len(ctx) /\ <<ctx[pos]>> = EndOfMemories
    ELSE LET t == Head(items).text
         IN  /\ pos + Len(t) <= Len(ctx)
             /\ SubSeq(ctx, pos, pos + Len(t) - 1) = t
             /\ ctx[pos + Len(t)] = "\n"
             /\ LaidOut(ctx, Tail(items), pos + Len(t) + 1)

\* C7: when the memory-read returned N > 0 records, the context passed to
\* the inference call holds, between its opening and closing lines, the
\* text of each record once, in the order returned, and nothing else.
C7_ContextInOrder ==
    \A r \in Requests :
        (Issued(r, "create") /\ Len(RecordsReturned(r)) > 0)
        => LET ctx == ContextPassed(r)
           IN  /\ Len(ctx) >= 3
               /\ <<ctx[1]>> = StartOfMemories
               /\ ctx[2] = "\n"
               /\ LaidOut(ctx, RecordsReturned(r), 3)

C7_Witness ==
    \E r \in Requests :
        /\ Issued(r, "create")
        /\ RecordsReturned(r) = <<[kind |-> "text", text |-> <<"b">>],
                                  [kind |-> "text", text |-> <<"a">>]>>

\* C8: when the memory-read returned no record, the context passed to the
\* inference call is the bootstrap string; it is never empty; and with at
\* least one record it is not the bootstrap string.
C8_BootstrapIffNoRecords ==
    \A r \in Requests :
        Issued(r, "create")
        => /\ ContextPassed(r) # <<>>
           /\ Len(RecordsReturned(r)) = 0 <=> ContextPassed(r) = Bootstrap

C8_Witness ==
    \E r \in Requests :
        /\ Issued(r, "create")
        /\ response[r].body.has_memories
        /\ response[r].body.memories = EmptyList
        /\ ContextPassed(r) = Bootstrap

\* C10: whatever the other requests do, what a request sends in each
\* outbound call and what it answers are fixed by its own user_id and
\* message and by what its own calls returned.
OwnResult(r) ==
    IF ~Returned(r, "get") THEN NoResult
    ELSE LET ex == ReadException(response[r], json_error)
         IN  IF ex = "RequestException" THEN RetrievalFailure
             ELSE IF ex = "Exception" THEN InternalServerError
             ELSE IF ~Returned(r, "create") THEN NoResult
             ELSE IF chat_completion[r].kind # "content" THEN LLMFailure
             ELSE IF ~Returned(r, "post") THEN NoResult
             ELSE [status_code |-> 200, kind |-> "reply", detail |-> "",
                   reply |-> chat_completion[r].content]

C10_OwnInputsOnly ==
    \A r \in Requests :
        /\ Issued(r, "get") => params[r] = [user_id |-> request[r].user_id]
        /\ Issued(r, "create")
           => /\ Len(messages[r]) = 3
              /\ messages[r][1] = [role |-> "system", content |-> SystemPrompt]
              /\ messages[r][2].role = "system"
              /\ messages[r][2].content =
                    MemoryContext(JsonGetMemories(response[r].body))
              /\ messages[r][3] = [role |-> "user", content |-> request[r].message]
        /\ Issued(r, "post")
           => payload[r] =
                 [user_id |-> request[r].user_id,
                  data |-> <<"User said: '">> \o request[r].message
                           \o <<"'. You replied: '">>
                           \o Str(chat_completion[r].content) \o <<"'">>]
        /\ result[r] = OwnResult(r)

C10_Witness ==
    \E r, q \in Requests :
        /\ r # q
        /\ pc[r] = "post"
        /\ pc[q] = "create"
        /\ request[r].user_id # request[q].user_id
        /\ request[r].message # request[q].message
        /\ chat_completion[r].content # Some(request[q].message)

====
